---------------------------- MODULE Spec2Model ----------------------------
(***************************************************************************)
(* A model of fairseq/models/vqvae_lm.py (and the compute_conv_mask of     *)
(* fairseq/models/conv_encoder.py): the length/mask bookkeeping of the     *)
(* strided convolutional encoder, the exponential-moving-average           *)
(* vector-quantisation codebook (Quantize), the VQVAE forward pass with    *)
(* its pretraining gate, extract_codes, word dropout (mask_words) and the  *)
(* embedding sharing of build_model.                                       *)
(*                                                                         *)
(* Tensors of floats are modelled by exact rational numbers: the claims    *)
(* checked here are about the real-number formulas, not about rounding.    *)
(* Rationals are fractions of arbitrary-precision integers, because the    *)
(* codebook's values (decay 99/100, eps 1/100000) leave 32 bits at once.   *)
(***************************************************************************)
EXTENDS Integers, Sequences, FiniteSets, TLC

(***************************************************************************)
(* Arbitrary-precision naturals: little-endian sequences of limbs in base  *)
(* BigBase, without high zero limbs (zero is the empty sequence).          *)
(***************************************************************************)
BigBase == 100 * 100

RECURSIVE NatTrim(_)
NatTrim(s) ==
    IF s = <<>> THEN <<>>
    ELSE IF s[Len(s)] = 0 THEN NatTrim(SubSeq(s, 1, Len(s) - 1))
    ELSE s

RECURSIVE NatOfInt(_)
NatOfInt(n) ==
    IF n = 0 THEN <<>> ELSE <<n % BigBase>> \o NatOfInt(n \div BigBase)

RECURSIVE NatAddC(_, _, _)
NatAddC(a, b, c) ==
    IF a = <<>> /\ b = <<>> THEN (IF c = 0 THEN <<>> ELSE <<c>>)
    ELSE IF b = <<>> /\ c = 0 THEN a
    ELSE IF a = <<>> /\ c = 0 THEN b
    ELSE LET x == (IF a = <<>> THEN 0 ELSE Head(a))
                  + (IF b = <<>> THEN 0 ELSE Head(b)) + c
         IN  <<x % BigBase>>
               \o NatAddC(IF a = <<>> THEN <<>> ELSE Tail(a),
                          IF b = <<>> THEN <<>> ELSE Tail(b), x \div BigBase)

NatAdd(a, b) == NatAddC(a, b, 0)

\* -1, 0 or 1 as a < b, a = b, a > b
RECURSIVE NatCmpFrom(_, _, _)
NatCmpFrom(a, b, i) ==
    IF i = 0 THEN 0
    ELSE IF a[i] < b[i] THEN -1
    ELSE IF a[i] > b[i] THEN 1
    ELSE NatCmpFrom(a, b, i - 1)

NatCmp(a, b) ==
    IF Len(a) < Len(b) THEN -1
    ELSE IF Len(a) > Len(b) THEN 1
    ELSE NatCmpFrom(a, b, Len(a))

\* a - b for a >= b
RECURSIVE NatSubB(_, _, _)
NatSubB(a, b, borrow) ==
    IF a = <<>> THEN <<>>
    ELSE IF b = <<>> /\ borrow = 0 THEN a
    ELSE LET x == Head(a) - (IF b = <<>> THEN 0 ELSE Head(b)) - borrow
         IN  <<IF x < 0 THEN x + BigBase ELSE x>>
               \o NatSubB(Tail(a), IF b = <<>> THEN <<>> ELSE Tail(b),
                          IF x < 0 THEN 1 ELSE 0)

NatSub(a, b) == NatTrim(NatSubB(a, b, 0))

\* a * m + c for a limb m
RECURSIVE NatMulLimb(_, _, _)
NatMulLimb(a, m, c) ==
    IF a = <<>> THEN (IF c = 0 THEN <<>> ELSE <<c>>)
    ELSE LET x == Head(a) * m + c
         IN  <<x % BigBase>> \o NatMulLimb(Tail(a), m, x \div BigBase)

RECURSIVE NatMul(_, _)
NatMul(a, b) ==
    IF a = <<>> \/ b = <<>> THEN <<>>
    ELSE LET rest == NatMul(a, Tail(b))
         IN  NatAdd(IF Head(b) = 0 THEN <<>> ELSE NatMulLimb(a, Head(b), 0),
                    IF rest = <<>> THEN <<>> ELSE <<0>> \o rest)

(***************************************************************************)
(* Arbitrary-precision integers: a sign and a magnitude; zero is never     *)
(* negative.                                                               *)
(***************************************************************************)
ZMake(neg, mag) == [neg |-> neg /\ mag # <<>>, mag |-> mag]

ZOfInt(n) == IF n < 0 THEN ZMake(TRUE, NatOfInt(0 - n)) ELSE ZMake(FALSE, NatOfInt(n))

ZZero == ZOfInt(0)

ZNeg(a) == ZMake(~a.neg, a.mag)

ZAdd(a, b) ==
    IF a.neg = b.neg THEN ZMake(a.neg, NatAdd(a.mag, b.mag))
    ELSE IF NatCmp(a.mag, b.mag) >= 0 THEN ZMake(a.neg, NatSub(a.mag, b.mag))
    ELSE ZMake(b.neg, NatSub(b.mag, a.mag))

ZSub(a, b) == ZAdd(a, ZNeg(b))

ZMul(a, b) == ZMake(a.neg # b.neg, NatMul(a.mag, b.mag))

ZLess(a, b) ==
    IF a.neg # b.neg THEN a.neg
    ELSE IF a.neg THEN NatCmp(a.mag, b.mag) > 0
    ELSE NatCmp(a.mag, b.mag) < 0

(***************************************************************************)
(* Rationals: n / d with d >= 0 an integer, not reduced.  d = 0 stands for *)
(* the result of a division by zero (the tensor library's inf or nan).     *)
(***************************************************************************)
QMake(n, d) == [n |-> n, d |-> d]

QOfInt(i) == QMake(ZOfInt(i), ZOfInt(1))

QFrac(i, j) == QMake(ZOfInt(i), ZOfInt(j))

QDefined(a) == a.d # ZZero

QAdd(a, b) ==
    IF a.d = b.d THEN QMake(ZAdd(a.n, b.n), a.d)
    ELSE QMake(ZAdd(ZMul(a.n, b.d), ZMul(b.n, a.d)), ZMul(a.d, b.d))

QNeg(a) == QMake(ZNeg(a.n), a.d)

QSub(a, b) == QAdd(a, QNeg(b))

QMul(a, b) == QMake(ZMul(a.n, b.n), ZMul(a.d, b.d))

\* a / b; the sign is carried by the numerator
QDiv(a, b) ==
    LET n == IF a.d = b.d THEN a.n ELSE ZMul(a.n, b.d)
        d == IF a.d = b.d THEN b.n ELSE ZMul(a.d, b.n)
    IN  IF d.neg THEN QMake(ZNeg(n), ZNeg(d)) ELSE QMake(n, d)

QEq(a, b) ==
    /\ QDefined(a)
    /\ QDefined(b)
    /\ ZMul(a.n, b.d) = ZMul(b.n, a.d)

QLess(a, b) ==
    IF a.d = b.d THEN ZLess(a.n, b.n)
    ELSE ZLess(ZMul(a.n, b.d), ZMul(b.n, a.d))


(***************************************************************************)
(* Small helpers.                                                          *)
(***************************************************************************)
MaxOf(S) == CHOOSE x \in S : \A y \in S : y <= x

\* The element of a one-element set.  A value is named by binding it in a
\* set constructor, Only({e(v) : v \in {d}}), where it is used several
\* times: TLC evaluates d once there, but a LET definition at every use.
Only(S) == CHOOSE x \in S : TRUE

Range(f) == {f[i] : i \in DOMAIN f}

\* torch.arange(n): the values 0 .. n-1
Arange(n) == [i \in 1..n |-> i - 1]

(***************************************************************************)
(* The model's bounds.                                                     *)
(***************************************************************************)
\* sequence lengths of the convolution-only specification
ConvMaxLen == 5
\* kernel sizes 1..MaxKernel and strides 1..MaxStride, in up to MaxLayers layers
MaxKernel == 4
MaxStride == 3
MaxLayers == 2
\* rows of a batch
BatchSize == 2

VARIABLES
    cv,         \* ConvEncoder.forward in progress: its locals and position
    args,       \* the parsed command line arguments of the model
    quantizer,  \* per worker: the buffers embed, cluster_size, embed_avg
    n_calls,    \* calls of the model so far (bounds the model)
    pc,         \* per worker: "idle", the all_reduce it is inside of, or
                \* "returned" or "raised" after a call of the model
    ret,        \* per worker: what its call was given and has computed
    ar,         \* the all_reduce collectives in flight
    mw,         \* VQVAE.mask_words: its input, random scores and result
    bm,         \* VQVAE.build_model: its arguments and result
    mb          \* FullConvEncoder.forward in progress: its blocks' shapes

vars == <<cv, args, quantizer, n_calls, pc, ret, ar, mw, bm, mb>>

(***************************************************************************)
(* compute_conv_mask and the convolution stack of ConvEncoder.             *)
(***************************************************************************)
\* Output width of nn.Conv1d(kernel_size = k, padding = p, stride = s) on
\* an input of width T.
ConvOutWidth(T, k, p, s) == (T + 2 * p - k) \div s + 1

\* A faulty variant of ValidLengths, to try the properties against: lengths / stride + 1.
ValidLengthsOneMore(lengths, stride) ==
    [b \in DOMAIN lengths |-> lengths[b] \div stride + 1]

\* (lengths - 1) / stride + 1 on a tensor of integers: the division is the
\* integer division of the tensor library the code was written for, and
\* lengths are at least 1.
ValidLengths(lengths, stride) ==
    [b \in DOMAIN lengths |-> (lengths[b] - 1) \div stride + 1]

compute_conv_mask(lengths, stride) ==
    LET valid_lengths == ValidLengths(lengths, stride)
        max_length == MaxOf(Range(valid_lengths))
        arange == Arange(max_length)
    IN  [valid_lengths |-> valid_lengths,
         mask |-> [b \in DOMAIN lengths |->
                     [t \in 1..max_length |-> arange[t] < valid_lengths[b]]]]

\* Width of the product of a tensor of width a and one of width b under
\* broadcasting; 0 when the shapes do not broadcast (a RuntimeError).
BroadcastWidth(a, b) ==
    IF a = b THEN a
    ELSE IF a = 1 THEN b
    ELSE IF b = 1 THEN a
    ELSE 0

\* One iteration of the loop of ConvEncoder.forward: the convolution, the
\* new lengths and mask, and the multiplication by the mask.
ConvLayerStep(width, lengths, k, s) ==
    LET conv_width == ConvOutWidth(width, k, k \div 2, s)
        cm == compute_conv_mask(lengths, s)
        mask_width == Len(cm.mask[1])
    IN  [conv_width |-> conv_width,
         lengths |-> cm.valid_lengths,
         new_mask |-> cm.mask,
         width |-> BroadcastWidth(conv_width, mask_width)]

\* The whole loop, from layer i on; ok is FALSE when a layer raised.
RECURSIVE ConvLayers(_, _, _, _, _)
ConvLayers(width, lengths, kernels, strides, i) ==
    LET st == ConvLayerStep(width, lengths, kernels[i], strides[i])
    IN  IF st.width = 0
        THEN [ok |-> FALSE, width |-> 0, lengths |-> st.lengths, mask |-> st.new_mask]
        ELSE IF i = Len(kernels)
        THEN [ok |-> TRUE, width |-> st.width, lengths |-> st.lengths, mask |-> st.new_mask]
        ELSE ConvLayers(st.width, st.lengths, kernels, strides, i + 1)

\* ConvEncoder.forward on an input of the given width: the width of its
\* output (T') and the mask (batch x T') it returns.
ConvEncoderForward(width, lengths, kernels, strides) ==
    ConvLayers(width, lengths, kernels, strides, 1)

(***************************************************************************)
(* Specification SpecConv: ConvEncoder.forward run layer by layer on every *)
(* batch of lengths and every stack of kernels and strides.                *)
(***************************************************************************)
Unused == [unused |-> TRUE]

None == "None"

LayerStacks(n) == [1..n -> (1..MaxKernel) \X (1..MaxStride)]

ConvInit ==
    /\ \E n \in 1..MaxLayers : \E stack \in LayerStacks(n) :
       \E nb \in 1..BatchSize : \E lengths \in [1..nb -> 1..ConvMaxLen] :
          cv = [kernels |-> [i \in 1..n |-> stack[i][1]],
                strides |-> [i \in 1..n |-> stack[i][2]],
                layer |-> 0,
                in_width |-> MaxOf(Range(lengths)),
                in_lengths |-> lengths,
                conv_width |-> MaxOf(Range(lengths)),
                width |-> MaxOf(Range(lengths)),
                lengths |-> lengths,
                new_mask |-> <<>>,
                pc |-> "loop"]
    /\ args = Unused /\ quantizer = Unused /\ n_calls = 0
    /\ pc = Unused /\ ret = Unused /\ ar = Unused /\ mw = Unused /\ bm = Unused /\ mb = Unused

\* One pass of the loop body; a shape mismatch raises and ends the call.
ConvLayer ==
    /\ cv.pc = "loop"
    /\ cv.layer < Len(cv.kernels)
    /\ LET i == cv.layer + 1
           st == ConvLayerStep(cv.width, cv.lengths, cv.kernels[i], cv.strides[i])
       IN  cv' = [cv EXCEPT !.layer = i,
                            !.in_width = cv.width,
                            !.in_lengths = cv.lengths,
                            !.conv_width = st.conv_width,
                            !.width = st.width,
                            !.lengths = st.lengths,
                            !.new_mask = st.new_mask,
                            !.pc = IF st.width = 0 THEN "raised" ELSE "loop"]
    /\ UNCHANGED <<args, quantizer, n_calls, pc, ret, ar, mw, bm, mb>>

\* After the last layer: quant_conv (kernel 1, stride 1) and the return.
ConvReturn ==
    /\ cv.pc = "loop"
    /\ cv.layer = Len(cv.kernels)
    /\ cv' = [cv EXCEPT !.width = ConvOutWidth(cv.width, 1, 0, 1),
                        !.pc = "returned"]
    /\ UNCHANGED <<args, quantizer, n_calls, pc, ret, ar, mw, bm, mb>>

ConvNext == ConvLayer \/ ConvReturn

SpecConv == ConvInit /\ [][ConvNext]_vars

(***************************************************************************)
(* C3.  For lengths >= 1 and a stride s >= 1, compute_conv_mask returns    *)
(* valid_lengths[b] = (L_b - 1) div s + 1 and a mask as wide as the        *)
(* largest valid length that is true exactly below each row's valid        *)
(* length; and a convolution with an odd kernel k, padding k div 2 and     *)
(* stride s over an input as wide as the longest row gives an output as    *)
(* wide as that mask, so with odd kernels no layer's multiplication by the *)
(* mask raises and every layer's input is again as wide as its longest row.*)
(***************************************************************************)
IsOdd(k) == k % 2 = 1

C3_ConvMaskShapes ==
    cv # Unused /\ cv.layer >= 1 =>
        LET k == cv.kernels[cv.layer]
            s == cv.strides[cv.layer]
            rows == DOMAIN cv.in_lengths
            mask_width == MaxOf({(cv.in_lengths[b] - 1) \div s + 1 : b \in rows})
        IN  /\ \A b \in rows :
                 /\ cv.lengths[b] = (cv.in_lengths[b] - 1) \div s + 1
                 /\ Len(cv.new_mask[b]) = mask_width
                 /\ \A t \in 0..(mask_width - 1) :
                        cv.new_mask[b][t + 1] <=> t < cv.lengths[b]
            /\ IsOdd(k) /\ cv.in_width = MaxOf(Range(cv.in_lengths)) =>
                 /\ cv.conv_width = (cv.in_width + 2 * (k \div 2) - k) \div s + 1
                 /\ cv.conv_width = mask_width
            /\ (\A i \in 1..cv.layer : IsOdd(cv.kernels[i])) =>
                 /\ cv.in_width = MaxOf(Range(cv.in_lengths))
                 /\ cv.pc # "raised"
                 /\ cv.width = mask_width

\* Two odd-kernel strided layers over rows of different lengths have run
\* and the call has returned with a mask that has a padded position.
C3_Witness ==
    /\ cv # Unused
    /\ cv.pc = "returned"
    /\ cv.layer = 2
    /\ \A i \in 1..2 : IsOdd(cv.kernels[i]) /\ cv.kernels[i] >= 3 /\ cv.strides[i] >= 2
    /\ cv.width >= 2
    /\ \E b \in DOMAIN cv.new_mask : ~cv.new_mask[b][cv.width]

(***************************************************************************)
(* Quantize: the codebook and its forward pass.                            *)
(***************************************************************************)
\* decay = 0.99 and eps = 1e-5, the defaults build_quantizer leaves in place
DecayNum == 99
DecayDen == 100
EpsDen == 100000

Decay == QFrac(DecayNum, DecayDen)
Eps == QFrac(1, EpsDen)

\* codebook size (bottom_latent_k); codes are numbered from 0
NumEmbed == 2
Codes == 0..(NumEmbed - 1)

\* The vectors the convolutional encoder's output is drawn from, and with
\* them the codebook dimension (bottom_latent_dim).
Vecs == {<<0, 1>>, <<-1, -1>>}
Dim == Len(CHOOSE v \in Vecs : TRUE)

\* embed = torch.randn(dim, n_embed): here column k is (k, 1 - k, ...)
InitEmbed == [c \in 1..Dim |-> [k \in Codes |-> QOfInt(IF c = 1 THEN k ELSE 1 - k)]]

\* Quantize.__init__
QuantizeInit ==
    [embed |-> InitEmbed,
     cluster_size |-> [k \in Codes |-> QOfInt(0)],
     embed_avg |-> InitEmbed]

RECURSIVE SumQ(_, _)
\* the sum of f[i] over the indices i of the sequence idx
SumQ(f, idx) ==
    IF idx = <<>> THEN QOfInt(0) ELSE QAdd(f[Head(idx)], SumQ(f, Tail(idx)))

RECURSIVE SeqOfSet(_)
SeqOfSet(S) ==
    IF S = {} THEN <<>>
    ELSE LET x == CHOOSE y \in S : \A z \in S : y <= z
         IN  <<x>> \o SeqOfSet(S \ {x})

SumOver(S, f) == SumQ(f, SeqOfSet(S))

\* input.reshape(-1, dim) of a T x batch x C tensor, and view(-1) of a
\* T x batch one: row s holds position (t, b) with s = t * batch + b
Flatten(x) ==
    LET T == Len(x)
        B == IF T = 0 THEN 0 ELSE Len(x[1])
    IN  [s \in 1..(T * B) |-> x[(s - 1) \div B + 1][((s - 1) % B) + 1]]

\* view(T, batch) of a flat tensor
Unflatten(flat, T, B) == [t \in 1..T |-> [b \in 1..B |-> flat[(t - 1) * B + b]]]

\* mask.transpose(0, 1) of a batch x T tensor
Transpose(m) ==
    LET B == Len(m)
        T == IF B = 0 THEN 0 ELSE Len(m[1])
    IN  [t \in 1..T |-> [b \in 1..B |-> m[b][t]]]

\* the sum of f[1], ..., f[n]
SumTo(n, f) == SumQ(f, [i \in 1..n |-> i])

\* A faulty variant of Dist, to try the properties against: the cross term taken once instead of twice.
DistOnce(embed, x, k) ==
    QAdd(QSub(SumTo(Dim, [c \in 1..Dim |-> QMul(QOfInt(x[c]), QOfInt(x[c]))]),
              SumTo(Dim, [c \in 1..Dim |-> QMul(QOfInt(x[c]), embed[c][k])])),
         SumTo(Dim, [c \in 1..Dim |-> QMul(embed[c][k], embed[c][k])]))

\* flatten.pow(2).sum(1) - 2 * flatten @ embed + embed.pow(2).sum(0), for
\* the vector x of one position and the code k
Dist(embed, x, k) ==
    QAdd(QSub(SumTo(Dim, [c \in 1..Dim |-> QMul(QOfInt(x[c]), QOfInt(x[c]))]),
              SumTo(Dim, [c \in 1..Dim |-> QMul(QOfInt(2 * x[c]), embed[c][k])])),
         SumTo(Dim, [c \in 1..Dim |-> QMul(embed[c][k], embed[c][k])]))

\* (-dist).max(1): the codes of maximal -dist for position x.  Which of
\* several maximal codes max returns is not specified: any of them.
ArgMaxNegDist(embed, x) ==
    UNION {{k \in Codes : \A j \in Codes : ~QLess(neg_dist[k], neg_dist[j])} :
              neg_dist \in {[k \in Codes |-> QNeg(Dist(embed, x, k))]}}

RECURSIVE Product(_)
\* the tuples that take their i-th element from the i-th set
Product(sets) ==
    IF sets = <<>> THEN {<<>>}
    ELSE {<<x>> \o t : x \in Head(sets), t \in Product(Tail(sets))}

\* the values embed_ind (flat, one code per position) may take
EmbedIndChoices(embed, flatten) ==
    Product([s \in DOMAIN flatten |-> ArgMaxNegDist(embed, flatten[s])])

\* embed_code: F.embedding(embed_id, embed.transpose(0, 1))
embed_code(embed, embed_id) ==
    [t \in DOMAIN embed_id |-> [b \in DOMAIN embed_id[t] |->
        [c \in 1..Dim |-> embed[c][embed_id[t][b]]]]]

\* F.one_hot(embed_ind, n_embed)
OneHot(ind) == [s \in DOMAIN ind |-> [k \in Codes |-> IF ind[s] = k THEN 1 ELSE 0]]

\* the rows of a flat tensor that torch.masked_select keeps
Unmasked(flat_mask) == {s \in DOMAIN flat_mask : flat_mask[s]}

\* A faulty variant of cluster_sum, to try the properties against: every position counted, masked or not.
ClusterSumAll(ind, flat_mask) ==
    [k \in Codes |-> Cardinality({s \in DOMAIN flat_mask : ind[s] = k})]

\* cluster_sum = unmasked_embed_onehot.sum(0)
ClusterSum(ind, flat_mask) ==
    LET unmasked_embed_onehot == OneHot(ind)
        kept == Unmasked(flat_mask)
    IN  [k \in Codes |-> Cardinality({s \in kept : unmasked_embed_onehot[s][k] = 1})]

RECURSIVE SumInt(_, _)
SumInt(f, idx) == IF idx = <<>> THEN 0 ELSE f[Head(idx)] + SumInt(f, Tail(idx))

\* embed_sum = unmasked_flatten.transpose(0, 1) @ unmasked_embed_onehot
EmbedSum(flatten, ind, flat_mask) ==
    LET unmasked_embed_onehot == OneHot(ind)
        kept == SeqOfSet(Unmasked(flat_mask))
    IN  [c \in 1..Dim |-> [k \in Codes |->
            SumInt([s \in DOMAIN flatten |-> flatten[s][c] * unmasked_embed_onehot[s][k]],
                   kept)]]

\* x.mul_(decay).add_(1 - decay, new)
Ema(old, new) ==
    QAdd(QMul(old, Decay), QMul(QSub(QOfInt(1), Decay), QOfInt(new)))

\* The training branch of Quantize.forward after the all_reduce: the moving
\* averages, the smoothed cluster sizes and the new codebook.
\* (self.cluster_size + eps) / (n + n_embed * eps) * n, n = cluster_size.sum()
Smoothed(cluster_size) ==
    Only({[k \in Codes |->
             QMul(QDiv(QAdd(cluster_size[k], Eps),
                       QAdd(n, QMul(QOfInt(NumEmbed), Eps))), n)] :
          n \in {SumOver(Codes, cluster_size)}})

\* embed_normalized = self.embed_avg / cluster_size.unsqueeze(0)
Normalized(embed_avg, cluster_size) ==
    Only({[c \in 1..Dim |-> [k \in Codes |-> QDiv(embed_avg[c][k], smoothed[k])]] :
          smoothed \in {Smoothed(cluster_size)}})

\* The training branch of Quantize.forward after the all_reduce: the moving
\* averages, the smoothed cluster sizes and the new codebook.
CodebookUpdate(q, sums) ==
    Only({[embed |-> Normalized(embed_avg, cluster_size),
           cluster_size |-> cluster_size,
           embed_avg |-> embed_avg] :
          cluster_size \in {[k \in Codes |->
                               Ema(q.cluster_size[k], sums.cluster_sum[k])]},
          embed_avg \in {[c \in 1..Dim |-> [k \in Codes |->
                               Ema(q.embed_avg[c][k], sums.embed_sum[c][k])]]}})

\* input_mask.type_as(input)
MaskAsNumber(m) == IF m THEN 1 ELSE 0

\* A faulty variant of MaskedQuantize, to try the properties against: the multiplication by the mask left out.
UnmaskedQuantize(quantize, input_mask) == quantize

\* quantize * input_mask.unsqueeze(-1)
MaskedQuantize(quantize, input_mask) ==
    [t \in DOMAIN quantize |-> [b \in DOMAIN quantize[t] |-> [c \in 1..Dim |->
        QMul(quantize[t][b][c], QOfInt(MaskAsNumber(input_mask[t][b])))]]]

\* input * input_mask.unsqueeze(-1)
MaskedInput(input, input_mask) ==
    [t \in DOMAIN input |-> [b \in DOMAIN input[t] |-> [c \in 1..Dim |->
        QMul(QOfInt(input[t][b][c]), QOfInt(MaskAsNumber(input_mask[t][b])))]]]

\* (quantize.detach() - input).pow(2).mean(), over all T * batch * C elements
MeanSquare(quantize, input) ==
    LET T == Len(input)
        B == Len(input[1])
        sq == [e \in 1..(T * B * Dim) |->
                 LET s == (e - 1) \div Dim
                     t == s \div B + 1
                     b == (s % B) + 1
                     c == ((e - 1) % Dim) + 1
                 IN  QMul(QSub(quantize[t][b][c], input[t][b][c]),
                          QSub(quantize[t][b][c], input[t][b][c]))]
    IN  QDiv(SumTo(T * B * Dim, sq), QOfInt(T * B * Dim))

\* input + (quantize - input).detach(): the forward value
StraightThrough(quantize, input) ==
    [t \in DOMAIN input |-> [b \in DOMAIN input[t] |-> [c \in 1..Dim |->
        QAdd(input[t][b][c], QSub(quantize[t][b][c], input[t][b][c]))]]]

\* 1.0 / embed_onehot[input_mask.view(-1)].mean(0).pow(2).sum()
EffectiveUnits(ind, flat_mask) ==
    Only({QDiv(QOfInt(1), SumOver(Codes, [k \in Codes |-> QMul(mean[k], mean[k])])) :
          mean \in {[k \in Codes |->
                       QFrac(ClusterSum(ind, flat_mask)[k],
                             Cardinality(Unmasked(flat_mask)))]}})

\* torch.mean and torch.var (unbiased) of the cluster sizes
ClusterMean(cluster_size) == QDiv(SumOver(Codes, cluster_size), QOfInt(NumEmbed))

ClusterVar(cluster_size) ==
    Only({QDiv(SumOver(Codes, [k \in Codes |->
                  QMul(QSub(cluster_size[k], m), QSub(cluster_size[k], m))]),
               QOfInt(NumEmbed - 1)) :
          m \in {ClusterMean(cluster_size)}})

\* The sums one worker's call contributes before the all_reduce.
LocalSums(input, input_mask, ind) ==
    [cluster_sum |-> ClusterSum(ind, Flatten(input_mask)),
     embed_sum |-> EmbedSum(Flatten(input), ind, Flatten(input_mask))]

\* stats: the effective units of the batch and, in training, the mean and
\* the variance of the updated cluster sizes
QuantizeStats(ind, input_mask, training, after) ==
    LET effective == ("effective latents per batch"
                        :> EffectiveUnits(ind, Flatten(input_mask)))
    IN  IF training
        THEN effective
             @@ ("moving_avg_cluster_mean" :> ClusterMean(after.cluster_size))
             @@ ("moving_avg_cluster_var" :> ClusterVar(after.cluster_size))
        ELSE effective

\* Quantize.forward of one worker: q are its buffers, ind the flat embed_ind
\* it computed and sums the cluster_sum and embed_sum after the all_reduce.
\* Returns the buffers after the call and the call's four results.
QuantizeForward(q, input, input_mask, ind, training, sums) ==
    Only({[q |-> after,
           quantize |-> StraightThrough(masked_quantize, masked_input),
           diff |-> MeanSquare(masked_quantize, masked_input),
           embed_ind |-> embed_ind,
           stats |-> QuantizeStats(ind, input_mask, training, after)] :
          embed_ind \in {Unflatten(ind, Len(input), Len(input[1]))},
          after \in {IF training THEN CodebookUpdate(q, sums) ELSE q},
          masked_quantize \in
              {MaskedQuantize(embed_code(q.embed, Unflatten(ind, Len(input), Len(input[1]))),
                              input_mask)},
          masked_input \in {MaskedInput(input, input_mask)}})

(***************************************************************************)
(* VQVAE.mask_words: word dropout on the decoder's input.  The scores of a *)
(* row are distinct, so an outcome of uniform_ is the rank of each         *)
(* position's score within its row.                                        *)
(***************************************************************************)
Pad == "<pad>"

Word == "w"

\* a batch of rows of the given lengths, padded to the longest
Collate(lengths) ==
    [b \in DOMAIN lengths |->
        [j \in 1..MaxOf(Range(lengths)) |-> IF j <= lengths[b] THEN Word ELSE Pad]]

\* the ranks 1..n in any order
Rankings(n) == {f \in [1..n -> 1..n] : \A i \in 1..n : \A j \in 1..n : f[i] = f[j] => i = j}

\* (lengths.float() * self.word_drop_rate).long()
MaskLengths(lengths, rate) ==
    [b \in DOMAIN lengths |-> (lengths[b] * rate[1]) \div rate[2]]

\* torch.arange(full_length) ... .ge(mask_lengths.unsqueeze(1)), as long
KeepPrefix(mask_lengths, full_length) ==
    [b \in DOMAIN mask_lengths |->
        [j \in 1..full_length |->
            IF Arange(full_length)[j] >= mask_lengths[b] THEN 1 ELSE 0]]

\* scores.masked_fill(src_masks, 0): the filled copy is discarded, scores
\* itself stays as drawn
ScoresAfterFill(scores, src_masks) == scores

\* torch.sort(scores, dim=-1, descending=True): sorted_idx, the positions
\* from the highest score down
SortedIdx(scores) ==
    [b \in DOMAIN scores |->
        [i \in DOMAIN scores[b] |->
            CHOOSE j \in DOMAIN scores[b] : scores[b][j] = Len(scores[b]) + 1 - i]]

\* mask.scatter(1, sorted_idx, mask): out[b][sorted_idx[b][i]] = mask[b][i]
Scatter(mask, sorted_idx) ==
    [b \in DOMAIN mask |->
        [j \in DOMAIN mask[b] |->
            mask[b][CHOOSE i \in DOMAIN mask[b] : sorted_idx[b][i] = j]]]

\* mask_words(src_tokens, lengths) with the scores uniform_ drew
mask_words(src_tokens, lengths, rate, drawn) ==
    LET src_masks == [b \in DOMAIN src_tokens |->
                        [j \in DOMAIN src_tokens[b] |-> src_tokens[b][j] = Pad]]
        full_length == Len(src_tokens[1])
        prefix == KeepPrefix(MaskLengths(lengths, rate), full_length)
        scores == ScoresAfterFill(drawn, src_masks)
        mask == Scatter(prefix, SortedIdx(scores))
    IN  [b \in DOMAIN src_tokens |->
            [j \in DOMAIN src_tokens[b] |->
                IF 1 - mask[b][j] # 0 THEN Pad ELSE src_tokens[b][j]]]

(***************************************************************************)
(* VQVAE: the model's forward pass and extract_codes.                      *)
(*                                                                         *)
(* Every worker is a process of its own: it has its own copy of the model, *)
(* its own training flag and its own batches, and it calls forward and     *)
(* extract_codes when it pleases.  The workers meet nowhere but in the two *)
(* torch.distributed.all_reduce calls of Quantize.forward, each of which   *)
(* holds a worker until every worker has entered the same collective.      *)
(* The text encoder and the convolutions' values are not modelled: the     *)
(* output of the convolutional encoder is any tensor over Vecs of the      *)
(* right shape.  The decoder is not modelled either; the model records     *)
(* what it is given.                                                       *)
(***************************************************************************)
\* raw sequence lengths 1..MaxLen
MaxLen == 3
\* update_steps arguments 0..MaxUpdateSteps
MaxUpdateSteps == 1
\* calls of the model in one behaviour, over all workers
MaxCalls == 2
\* workers of a distributed run
NumWorkers == 2

\* rows of a worker's batch
RowsOf(world) == IF world = 1 THEN BatchSize ELSE 1

\* drop_word_prob 0.0, the default, as numerator and denominator
NoDrop == <<0, 1>>

\* The arguments the model is built with and the process it runs in: a
\* single worker with the quantizer and a pretraining phase, a single
\* worker that sees two devices and has no process group (a run of one
\* process does not initialise torch.distributed), a single worker
\* without the quantizer, with or without the latent encoder and with or
\* without word dropout, and distributed runs, with the default
\* pretrain_steps, of workers that see one or two devices each.
ArgSets ==
    {[world |-> 1, device_count |-> 1, process_group |-> FALSE,
      use_latent |-> TRUE, pretrain_steps |-> 0,
      use_bottom_quantants_encoder |-> FALSE, drop_word_prob |-> NoDrop,
      kernels |-> <<3>>, strides |-> <<2>>]}
    \cup
    {[world |-> 1, device_count |-> 2, process_group |-> FALSE,
      use_latent |-> TRUE, pretrain_steps |-> -1,
      use_bottom_quantants_encoder |-> FALSE, drop_word_prob |-> NoDrop,
      kernels |-> <<3>>, strides |-> <<2>>]}
    \cup
    {[world |-> 1, device_count |-> 1, process_group |-> FALSE,
      use_latent |-> FALSE, pretrain_steps |-> -1,
      use_bottom_quantants_encoder |-> be,
      drop_word_prob |-> IF be THEN NoDrop ELSE <<1, 2>>,
      kernels |-> <<3>>, strides |-> <<2>>] :
        be \in BOOLEAN}
    \cup
    {[world |-> n, device_count |-> dc, process_group |-> TRUE,
      use_latent |-> TRUE, pretrain_steps |-> -1,
      use_bottom_quantants_encoder |-> FALSE, drop_word_prob |-> NoDrop,
      kernels |-> <<5, 3>>, strides |-> <<2, 2>>] :
        n \in 2..NumWorkers, dc \in {1, 2}}

Workers == 1..args.world

NoCall == [call |-> "none"]

Init ==
    /\ args \in ArgSets
    /\ quantizer = [w \in 1..args.world |-> QuantizeInit]
    /\ n_calls = 0
    /\ pc = [w \in 1..args.world |-> "idle"]
    /\ ret = [w \in 1..args.world |-> NoCall]
    /\ ar = <<>>
    /\ cv = Unused /\ mw = Unused /\ bm = Unused /\ mb = Unused

\* T' for a batch of the given lengths
CompressedWidth(lengths) ==
    ConvEncoderForward(MaxOf(Range(lengths)), lengths, args.kernels, args.strides).width

\* What one worker's call is given: the lengths of its batch and the output
\* of the convolutional encoder, T' x batch x C'.
BatchInputs(rows) ==
    UNION {{[lengths |-> l, text_conv_out |-> x] :
                x \in [1..CompressedWidth(l) -> [1..rows -> Vecs]]} :
           l \in [1..rows -> 1..MaxLen]}

ToQ(x) == [t \in DOMAIN x |-> [b \in DOMAIN x[t] |-> [c \in 1..Dim |-> QOfInt(x[t][b][c])]]]

\* ~mask
Negate(mask) == [b \in DOMAIN mask |-> [t \in DOMAIN mask[b] |-> ~mask[b][t]]]

\* A faulty variant of Gate, to try the properties against: update_steps >= pretrain_steps.
GateInclusive(use_latent, update_steps, pretrain_steps) ==
    use_latent /\ update_steps >= pretrain_steps

\* self.bottom_quantizer is not None and update_steps > self.pretrain_steps
Gate(use_latent, update_steps, pretrain_steps) ==
    use_latent /\ update_steps > pretrain_steps

\* A faulty variant of PaddingMask, to try the properties against: the mask handed on as it is.
PaddingMaskSame(mask) == mask

\* 'encoder_padding_mask': ~mask
PaddingMask(mask) == Negate(mask)

\* A faulty variant of MaskedFill, to try the properties against: the valid positions filled instead.
MaskedFillValid(codes, mask, value) ==
    [b \in DOMAIN codes |-> [t \in DOMAIN codes[b] |->
        IF mask[b][t] THEN value ELSE codes[b][t]]]

\* embed_ind.transpose(0, 1).masked_fill(~mask, -1)
MaskedFill(codes, mask, value) ==
    [b \in DOMAIN codes |-> [t \in DOMAIN codes[b] |->
        IF Negate(mask)[b][t] THEN value ELSE codes[b][t]]]

(***************************************************************************)
(* torch.distributed.all_reduce.  ar holds the collectives that some       *)
(* worker has entered and not every worker has left, the oldest first:     *)
(* vals[w] is what worker w handed in (its tensor, and the call it is in), *)
(* left the workers that have returned from the collective.  A worker's    *)
(* n-th all_reduce is every other worker's n-th.  In a process without an  *)
(* initialised process group all_reduce raises at once.                    *)
(***************************************************************************)
\* What all_reduce raises where the default process group has not been
\* initialised: an AssertionError, a RuntimeError or a ValueError, as the
\* version of torch has it.
ProcessGroupErrors == {"AssertionError", "RuntimeError", "ValueError"}

\* Worker w calls all_reduce on x: it joins the oldest collective it has
\* not entered yet, or starts one.
Enter(log, w, x) ==
    IF \E i \in DOMAIN log : w \notin DOMAIN log[i].vals
    THEN [log EXCEPT ![CHOOSE i \in DOMAIN log :
                          /\ w \notin DOMAIN log[i].vals
                          /\ \A j \in 1..(i - 1) : w \in DOMAIN log[j].vals].vals
                        = (w :> x) @@ @]
    ELSE Append(log, [vals |-> (w :> x), left |-> {}])

\* the collective worker w is inside of
Inside(log, w) ==
    CHOOSE i \in DOMAIN log : w \in DOMAIN log[i].vals /\ w \notin log[i].left

\* all_reduce returns once every worker of the process group has entered
\* the collective
Complete(log, w) ==
    /\ args.process_group
    /\ DOMAIN log[Inside(log, w)].vals = Workers

\* Worker w returns from its collective; the collective every worker has
\* left is over.
Leave(log, w) ==
    LET i == Inside(log, w)
    IN  IF log[i].left \cup {w} = Workers
        THEN [j \in 1..(Len(log) - 1) |-> IF j < i THEN log[j] ELSE log[j + 1]]
        ELSE [log EXCEPT ![i].left = @ \cup {w}]

\* the sum of the workers' cluster_sum
ReduceClusterSum(vals) ==
    [k \in Codes |->
        SumInt([v \in DOMAIN vals |-> vals[v].tensor[k]], SeqOfSet(DOMAIN vals))]

\* the sum of the workers' embed_sum
ReduceEmbedSum(vals) ==
    [c \in 1..Dim |-> [k \in Codes |->
        SumInt([v \in DOMAIN vals |-> vals[v].tensor[c][k]], SeqOfSet(DOMAIN vals))]]

\* the part of a call that the collective keeps beside the tensor
Contribution(c) ==
    [lengths |-> c.lengths, text_conv_out |-> c.text_conv_out, mask |-> c.mask,
     embed_ind |-> c.embed_ind, training |-> c.training, quantized |-> c.quantized]

\* Quantize.forward reaches the all_reduce: in training mode, where
\* torch.cuda.device_count() > 1
Meets(c) == c.quantized /\ c.training /\ args.device_count > 1

\* the outcomes of uniform_ in mask_words, which forward calls in training
\* mode when drop_word_prob > 0
Draws(c) ==
    IF c.call = "forward" /\ c.training /\ args.drop_word_prob[1] > 0
    THEN [DOMAIN c.lengths -> Rankings(MaxOf(Range(c.lengths)))]
    ELSE {<<>>}

\* What a call of VQVAE.forward or extract_codes was given and what it
\* computed after the convolutional encoder: c is the call so far, qf the
\* results of Quantize.forward, drawn the scores mask_words drew, step the
\* calls whose sums entered the codebook update.
ModelCall(c, qf, drawn, step) ==
    [call |-> c.call,
     training |-> c.training,
     update_steps |-> c.update_steps,
     lengths |-> c.lengths,
     text_conv_out |-> c.text_conv_out,
     mask |-> c.mask,
     quantized |-> c.quantized,
     old |-> c.old,
     step |-> step,
     embed_ind |-> IF c.quantized THEN qf.embed_ind ELSE <<>>,
     diff |-> IF c.quantized THEN qf.diff ELSE QOfInt(0),
     quantize_stats |-> IF c.quantized THEN qf.stats ELSE <<>>,
     encoder_out |->
         IF c.call = "forward"
         THEN [bottom_latent_encoder |-> args.use_bottom_quantants_encoder,
               src_encodings |-> IF c.quantized THEN qf.quantize
                                 ELSE ToQ(c.text_conv_out)]
         ELSE <<>>,
     encoder_padding_mask |->
         IF c.call = "forward" THEN PaddingMask(c.mask) ELSE <<>>,
     scores |-> drawn,
     decoder_tokens |->
         IF c.call = "forward"
         THEN IF c.training /\ args.drop_word_prob[1] > 0
              THEN mask_words(Collate(c.lengths), c.lengths, args.drop_word_prob, drawn)
              ELSE Collate(c.lengths)
         ELSE <<>>,
     codes |->
         IF c.call = "extract_codes"
         THEN MaskedFill(Transpose(qf.embed_ind), c.mask, -1)
         ELSE <<>>,
     raised |-> None]

\* The rest of worker w's call c from the codebook update on, with the
\* cluster_sum and embed_sum the update is made from.
Finish(w, c, sums, step) ==
    \E drawn \in Draws(c) :
    \E qf \in {IF c.quantized
               THEN QuantizeForward(c.old, c.text_conv_out, Transpose(c.mask), c.ind,
                                    c.training, sums)
               ELSE <<>>} :
       /\ quantizer' = [quantizer EXCEPT ![w] = IF c.quantized THEN qf.q ELSE @]
       /\ ret' = [ret EXCEPT ![w] = ModelCall(c, qf, drawn, step)]
       /\ pc' = [pc EXCEPT ![w] = "returned"]

\* Worker w calls forward or extract_codes on a batch of its own.  The call
\* runs to its end, or to the first all_reduce of Quantize.forward, which
\* raises if there is no process group; extract_codes on a model without a
\* quantizer calls None and raises.
Call(w, call, training, update_steps, quantized) ==
    /\ pc[w] = "idle"
    /\ n_calls < MaxCalls
    /\ n_calls' = n_calls + 1
    /\ \E inp \in BatchInputs(RowsOf(args.world)) :
       \E mask \in {ConvEncoderForward(MaxOf(Range(inp.lengths)), inp.lengths,
                                       args.kernels, args.strides).mask} :
          IF quantized /\ ~args.use_latent
          THEN /\ ret' = [ret EXCEPT ![w] =
                            [call |-> call, training |-> training,
                             update_steps |-> update_steps,
                             lengths |-> inp.lengths,
                             text_conv_out |-> inp.text_conv_out,
                             mask |-> mask, quantized |-> FALSE,
                             old |-> quantizer[w],
                             raised |-> "TypeError"]]
               /\ pc' = [pc EXCEPT ![w] = "raised"]
               /\ UNCHANGED <<quantizer, ar>>
          ELSE \E ind \in (IF quantized
                           THEN EmbedIndChoices(quantizer[w].embed,
                                                Flatten(inp.text_conv_out))
                           ELSE {<<>>}) :
               \E c \in {[call |-> call, training |-> training,
                          update_steps |-> update_steps,
                          lengths |-> inp.lengths,
                          text_conv_out |-> inp.text_conv_out,
                          mask |-> mask, quantized |-> quantized,
                          old |-> quantizer[w],
                          ind |-> ind,
                          embed_ind |-> IF quantized
                                        THEN Unflatten(ind, Len(inp.text_conv_out),
                                                       Len(inp.lengths))
                                        ELSE <<>>,
                          local |-> IF quantized /\ training
                                    THEN LocalSums(inp.text_conv_out, Transpose(mask), ind)
                                    ELSE <<>>]} :
                  IF Meets(c) /\ ~args.process_group
                  THEN /\ \E error \in ProcessGroupErrors :
                             ret' = [ret EXCEPT ![w] =
                                        [call |-> call, training |-> training,
                                         update_steps |-> update_steps,
                                         lengths |-> inp.lengths,
                                         text_conv_out |-> inp.text_conv_out,
                                         mask |-> mask, quantized |-> TRUE,
                                         old |-> quantizer[w],
                                         raised |-> error]]
                       /\ pc' = [pc EXCEPT ![w] = "raised"]
                       /\ UNCHANGED <<quantizer, ar>>
                  ELSE IF Meets(c)
                  THEN /\ ar' = Enter(ar, w, [tensor |-> c.local.cluster_sum,
                                              call |-> Contribution(c)])
                       /\ ret' = [ret EXCEPT ![w] = c]
                       /\ pc' = [pc EXCEPT ![w] = "all_reduce(cluster_sum)"]
                       /\ UNCHANGED quantizer
                  ELSE /\ Finish(w, c, c.local, (w :> Contribution(c)))
                       /\ UNCHANGED ar
    /\ UNCHANGED <<args, cv, mw, bm, mb>>

\* VQVAE.forward(decoder_tokens, lengths, full_tokens, update_steps)
Forward ==
    \E w \in Workers : \E training \in BOOLEAN : \E update_steps \in 0..MaxUpdateSteps :
        Call(w, "forward", training, update_steps,
             Gate(args.use_latent, update_steps, args.pretrain_steps))

\* VQVAE.extract_codes(full_tokens, full_lengths): bottom_quantizer is
\* called whatever the model was built with.
ExtractCodes ==
    \E w \in Workers : \E training \in BOOLEAN :
        Call(w, "extract_codes", training, 0, TRUE)

\* all_reduce(cluster_sum) returns to worker w, which goes on to call
\* all_reduce(embed_sum).
AllReduceClusterSum ==
    \E w \in Workers :
        /\ pc[w] = "all_reduce(cluster_sum)"
        /\ Complete(ar, w)
        /\ ret' = [ret EXCEPT ![w] =
                     [@ EXCEPT !.local.cluster_sum =
                                   ReduceClusterSum(ar[Inside(ar, w)].vals)]]
        /\ ar' = Enter(Leave(ar, w), w, [tensor |-> ret[w].local.embed_sum,
                                         call |-> Contribution(ret[w])])
        /\ pc' = [pc EXCEPT ![w] = "all_reduce(embed_sum)"]
        /\ UNCHANGED <<args, quantizer, n_calls, cv, mw, bm, mb>>

\* all_reduce(embed_sum) returns to worker w, which updates its buffers and
\* runs the call to its end.
AllReduceEmbedSum ==
    \E w \in Workers :
        /\ pc[w] = "all_reduce(embed_sum)"
        /\ Complete(ar, w)
        /\ \E vals \in {ar[Inside(ar, w)].vals} :
              Finish(w, ret[w],
                     [cluster_sum |-> ret[w].local.cluster_sum,
                      embed_sum |-> ReduceEmbedSum(vals)],
                     [v \in DOMAIN vals |-> vals[v].call])
        /\ ar' = Leave(ar, w)
        /\ UNCHANGED <<args, n_calls, cv, mw, bm, mb>>

\* The caller of worker w takes the results, or the error.
Return ==
    \E w \in Workers :
        /\ pc[w] \in {"returned", "raised"}
        /\ pc' = [pc EXCEPT ![w] = "idle"]
        /\ ret' = [ret EXCEPT ![w] = NoCall]
        /\ UNCHANGED <<args, quantizer, n_calls, ar, cv, mw, bm, mb>>

Next == Forward \/ ExtractCodes \/ AllReduceClusterSum \/ AllReduceEmbedSum \/ Return

Spec == Init /\ [][Next]_vars

(***************************************************************************)
(* Helpers of the claims about Quantize.forward: what a call c saw,        *)
(* position by position.  Flat position s is (t, b) with                   *)
(* s = (t - 1) * batch + b.                                                *)
(***************************************************************************)
FlatPositions(c) == 1..(Len(c.embed_ind) * Len(c.lengths))

TimeOf(c, s) == (s - 1) \div Len(c.lengths) + 1

RowOf(c, s) == ((s - 1) % Len(c.lengths)) + 1

\* the unmasked positions of the call that were assigned to code k
AssignedTo(c, k) ==
    {s \in FlatPositions(c) :
        /\ c.mask[RowOf(c, s)][TimeOf(c, s)]
        /\ c.embed_ind[TimeOf(c, s)][RowOf(c, s)] = k}

\* c_k and component i of s_k over the calls cs, one of each worker
CountOver(cs, k) ==
    SumInt([v \in DOMAIN cs |-> Cardinality(AssignedTo(cs[v], k))], SeqOfSet(DOMAIN cs))

VectorSumOver(cs, k, i) ==
    SumInt([v \in DOMAIN cs |->
               SumInt([s \in FlatPositions(cs[v]) |->
                          cs[v].text_conv_out[TimeOf(cs[v], s)][RowOf(cs[v], s)][i]],
                      SeqOfSet(AssignedTo(cs[v], k)))],
           SeqOfSet(DOMAIN cs))

\* decay * old + (1 - decay) * new
MovingAverage(old, new) ==
    QAdd(QMul(Decay, old), QMul(QSub(QOfInt(1), Decay), QOfInt(new)))

\* Worker w's buffers are those of one update from the buffers before the
\* call, with c_k and s_k taken over the calls cs.
UpdatedFrom(w, cs) ==
    \A k \in Codes :
        /\ QEq(quantizer[w].cluster_size[k],
               MovingAverage(ret[w].old.cluster_size[k], CountOver(cs, k)))
        /\ \A c \in 1..Dim :
              /\ QEq(quantizer[w].embed_avg[c][k],
                     MovingAverage(ret[w].old.embed_avg[c][k], VectorSumOver(cs, k, c)))
              /\ \E n \in {SumOver(Codes, quantizer[w].cluster_size)} :
                    QEq(QMul(quantizer[w].embed[c][k],
                             QMul(QDiv(QAdd(quantizer[w].cluster_size[k], Eps),
                                       QAdd(n, QMul(QOfInt(NumEmbed), Eps))), n)),
                        quantizer[w].embed_avg[c][k])

\* worker w has returned from a training-mode call of Quantize.forward
Trained(w) == pc[w] = "returned" /\ ret[w].quantized /\ ret[w].training

(***************************************************************************)
(* C1 as stated.  A training-mode call of Quantize.forward makes one       *)
(* moving-average update in which c_k and s_k count the unmasked positions *)
(* of that call alone.  It fails where the all_reduce adds the other       *)
(* workers' sums.                                                          *)
(***************************************************************************)
C1_OwnPositionsOnly ==
    \A w \in Workers : Trained(w) => UpdatedFrom(w, (w :> ret[w]))

\* Worker w's call reached the all_reduce in a process that sees more than
\* one device and has no process group.
NoProcessGroup(w) ==
    /\ ret[w].quantized /\ ret[w].training
    /\ args.device_count > 1 /\ ~args.process_group

\* Worker w's call was ended by the error of all_reduce, the buffers as
\* they were.
RaisedInAllReduce(w) ==
    /\ pc[w] = "raised"
    /\ ret[w].raised \in ProcessGroupErrors
    /\ quantizer[w] = ret[w].old

(***************************************************************************)
(* C1.  A training-mode call of Quantize.forward that returns has made     *)
(* exactly one moving-average update: cluster_size[k] becomes decay * old  *)
(* + (1 - decay) * c_k, embed_avg[:,k] becomes decay * old + (1 - decay) * *)
(* s_k, and embed[:,k] becomes embed_avg[:,k] / (((cluster_size[k] + eps)  *)
(* / (n + n_embed * eps)) * n), n the sum of the new cluster sizes, where  *)
(* c_k counts and s_k sums the unmasked positions assigned to k in the     *)
(* call, and in the training-mode call of every other worker that met it   *)
(* in the all_reduce when torch.cuda.device_count() > 1.  Masked positions *)
(* contribute nothing, and a call outside training leaves the buffers as   *)
(* they were.  Where torch.cuda.device_count() > 1 and there is no process *)
(* group, the training-mode call raises in the all_reduce and makes no     *)
(* update.                                                                 *)
(***************************************************************************)
C1_EmaCodebookUpdate ==
    \A w \in Workers : pc[w] \in {"returned", "raised"} /\ ret[w].quantized =>
        IF NoProcessGroup(w)
        THEN RaisedInAllReduce(w)
        ELSE /\ pc[w] = "returned"
             /\ IF ret[w].training
                THEN /\ DOMAIN ret[w].step
                           = IF args.device_count > 1 THEN Workers ELSE {w}
                     /\ \A v \in DOMAIN ret[w].step :
                           ret[w].step[v].quantized /\ ret[w].step[v].training
                     /\ ret[w].step[w].text_conv_out = ret[w].text_conv_out
                     /\ ret[w].step[w].embed_ind = ret[w].embed_ind
                     /\ ret[w].step[w].mask = ret[w].mask
                     /\ UpdatedFrom(w, ret[w].step)
                ELSE quantizer[w] = ret[w].old

\* A second update of a single worker's codebook, from cluster sizes that
\* are no longer zero, by a batch with a masked position and a code that
\* gained an unmasked position.
C1_Witness ==
    /\ args.world = 1
    /\ Trained(1)
    /\ \E k \in Codes : ~QEq(ret[1].old.cluster_size[k], QOfInt(0))
    /\ \E b \in DOMAIN ret[1].mask : \E t \in DOMAIN ret[1].mask[b] : ~ret[1].mask[b][t]
    /\ \E k \in Codes : Cardinality(AssignedTo(ret[1], k)) >= 2
    /\ \E s \in FlatPositions(ret[1]) :
          /\ ~ret[1].mask[RowOf(ret[1], s)][TimeOf(ret[1], s)]
          /\ Cardinality(AssignedTo(ret[1],
                ret[1].embed_ind[TimeOf(ret[1], s)][RowOf(ret[1], s)])) = 0

(***************************************************************************)
(* C2.  For every position of the input, masked or not, embed_ind is a     *)
(* code in 0..n_embed-1 whose codebook column is at minimal squared        *)
(* Euclidean distance from the position's vector, and the expanded form    *)
(* |x|^2 - 2 x.e_k + |e_k|^2 the code computes equals |x - e_k|^2.         *)
(***************************************************************************)
SquaredDistance(embed, x, k) ==
    SumTo(Dim, [c \in 1..Dim |->
                  QMul(QSub(QOfInt(x[c]), embed[c][k]), QSub(QOfInt(x[c]), embed[c][k]))])

C2_NearestCode ==
    \A w \in Workers : pc[w] = "returned" /\ ret[w].quantized =>
        \A s \in FlatPositions(ret[w]) :
            \E x \in {ret[w].text_conv_out[TimeOf(ret[w], s)][RowOf(ret[w], s)]} :
            \E k \in {ret[w].embed_ind[TimeOf(ret[w], s)][RowOf(ret[w], s)]} :
            \E d \in {[j \in Codes |-> SquaredDistance(ret[w].old.embed, x, j)]} :
                /\ k \in Codes
                /\ \A j \in Codes :
                      /\ ~QLess(d[j], d[k])
                      /\ QEq(Dist(ret[w].old.embed, x, j), d[j])

\* A call on an updated codebook in which a masked position got code 1
\* because code 1 is strictly nearer to it than code 0.
C2_Witness ==
    /\ pc[1] = "returned"
    /\ ret[1].quantized
    /\ ret[1].old.embed # InitEmbed
    /\ \E s \in FlatPositions(ret[1]) :
          /\ ~ret[1].mask[RowOf(ret[1], s)][TimeOf(ret[1], s)]
          /\ ret[1].embed_ind[TimeOf(ret[1], s)][RowOf(ret[1], s)] = 1
          /\ QLess(SquaredDistance(ret[1].old.embed,
                      ret[1].text_conv_out[TimeOf(ret[1], s)][RowOf(ret[1], s)], 1),
                   SquaredDistance(ret[1].old.embed,
                      ret[1].text_conv_out[TimeOf(ret[1], s)][RowOf(ret[1], s)], 0))


(***************************************************************************)
(* Helpers of the claims about VQVAE.forward and extract_codes.            *)
(***************************************************************************)
RECURSIVE LengthAfter(_, _, _)
\* the valid length of a row of raw length L after the layers i.. of strides
LengthAfter(L, strides, i) ==
    IF i > Len(strides) THEN L
    ELSE LengthAfter((L - 1) \div strides[i] + 1, strides, i + 1)

\* the row's final valid length
FinalLength(w, b) == LengthAfter(ret[w].lengths[b], args.strides, 1)

\* T', the largest final valid length of the batch
FinalWidth(w) == MaxOf({FinalLength(w, b) : b \in DOMAIN ret[w].lengths})

(***************************************************************************)
(* C4.  The 'encoder_padding_mask' VQVAE.forward hands to the decoder sets *)
(* padding to True: encoder_padding_mask[b][t] is True iff t is at or      *)
(* beyond row b's final valid length, and it is the elementwise negation   *)
(* of the convolutional encoder's mask, which sets padding to False and is *)
(* the mask the quantizer is given.                                        *)
(***************************************************************************)
C4_PaddingMaskNegated ==
    \A w \in Workers : pc[w] = "returned" /\ ret[w].call = "forward" =>
        /\ DOMAIN ret[w].encoder_padding_mask = DOMAIN ret[w].lengths
        /\ \A b \in DOMAIN ret[w].lengths :
              /\ Len(ret[w].encoder_padding_mask[b]) = FinalWidth(w)
              /\ Len(ret[w].mask[b]) = FinalWidth(w)
              /\ \A t \in 0..(FinalWidth(w) - 1) :
                    /\ ret[w].encoder_padding_mask[b][t + 1] <=> t >= FinalLength(w, b)
                    /\ ret[w].encoder_padding_mask[b][t + 1] <=> ~ret[w].mask[b][t + 1]

\* A quantized forward call on a batch whose second row is shorter than
\* the first after compression: position 1 of that row is padding.
C4_Witness ==
    /\ pc[1] = "returned"
    /\ ret[1].call = "forward"
    /\ ret[1].quantized
    /\ Len(ret[1].lengths) = 2
    /\ FinalLength(1, 1) = 2 /\ FinalLength(1, 2) = 1
    /\ ret[1].encoder_padding_mask[2] = <<FALSE, TRUE>>
    /\ ret[1].encoder_padding_mask[1] = <<FALSE, FALSE>>

(***************************************************************************)
(* C5.  The forward value of the quantize tensor Quantize.forward returns  *)
(* is the selected codebook vector at every position whose input_mask is   *)
(* True and the zero vector at every position whose input_mask is False:   *)
(* input + (quantize - input) evaluates to the masked quantized value.     *)
(* The codebook vector is the one looked up, before the call's update.     *)
(***************************************************************************)
C5_StraightThroughValue ==
    \A w \in Workers :
        pc[w] = "returned" /\ ret[w].call = "forward" /\ ret[w].quantized =>
            \A s \in FlatPositions(ret[w]) : \A c \in 1..Dim :
                QEq(ret[w].encoder_out.src_encodings[TimeOf(ret[w], s)][RowOf(ret[w], s)][c],
                    IF ret[w].mask[RowOf(ret[w], s)][TimeOf(ret[w], s)]
                    THEN ret[w].old.embed[c][ret[w].embed_ind[TimeOf(ret[w], s)][RowOf(ret[w], s)]]
                    ELSE QOfInt(0))

\* A training call on an updated codebook with a masked position whose
\* input is not zero and an unmasked position whose code vector differs
\* from its input and from the same code's vector after the update.
C5_Witness ==
    /\ Trained(1)
    /\ ret[1].call = "forward"
    /\ ret[1].old.embed # InitEmbed
    /\ \E s \in FlatPositions(ret[1]) :
          /\ ~ret[1].mask[RowOf(ret[1], s)][TimeOf(ret[1], s)]
          /\ ret[1].text_conv_out[TimeOf(ret[1], s)][RowOf(ret[1], s)][1] # 0
          /\ QEq(ret[1].encoder_out.src_encodings[TimeOf(ret[1], s)][RowOf(ret[1], s)][1],
                 QOfInt(0))
    /\ \E s \in FlatPositions(ret[1]) : \E c \in 1..Dim :
       \E k \in {ret[1].embed_ind[TimeOf(ret[1], s)][RowOf(ret[1], s)]} :
          /\ ret[1].mask[RowOf(ret[1], s)][TimeOf(ret[1], s)]
          /\ ~QEq(ret[1].encoder_out.src_encodings[TimeOf(ret[1], s)][RowOf(ret[1], s)][c],
                  QOfInt(ret[1].text_conv_out[TimeOf(ret[1], s)][RowOf(ret[1], s)][c]))
          /\ ~QEq(ret[1].old.embed[c][k], quantizer[1].embed[c][k])

\* Worker w's call of extract_codes has returned a batch x T' table whose
\* entry (b, t) is -1 iff t is at or beyond row b's valid compressed length
\* and otherwise the code the quantizer assigned to the position.
ReturnedTable(w) ==
    /\ pc[w] = "returned"
    /\ DOMAIN ret[w].codes = DOMAIN ret[w].lengths
    /\ \A b \in DOMAIN ret[w].lengths :
          /\ Len(ret[w].codes[b]) = FinalWidth(w)
          /\ \A t \in 0..(FinalWidth(w) - 1) :
                /\ ret[w].codes[b][t + 1] = -1 <=> t >= FinalLength(w, b)
                /\ t < FinalLength(w, b) =>
                      /\ ret[w].codes[b][t + 1] \in Codes
                      /\ ret[w].codes[b][t + 1] = ret[w].embed_ind[t + 1][b]

\* worker w's call of extract_codes is over
Extracted(w) == pc[w] \in {"returned", "raised"} /\ ret[w].call = "extract_codes"

(***************************************************************************)
(* C6 as stated.  VQVAE.extract_codes returns a batch x T' table whose     *)
(* entry (b, t) is -1 iff t is at or beyond row b's valid compressed       *)
(* length, and is otherwise the code in 0..bottom_latent_k-1 the quantizer *)
(* assigned to the position.  It fails on a model built with               *)
(* use_latent = 0: there is no quantizer, and the call raises TypeError.   *)
(* It fails too in training mode in a process that sees more than one      *)
(* device and has no process group: the all_reduce raises.                 *)
(***************************************************************************)
C6_AlwaysATable ==
    \A w \in Workers : Extracted(w) => ReturnedTable(w)

(***************************************************************************)
(* C6.  On a model that has a quantizer a call of VQVAE.extract_codes that *)
(* is over has returned a batch x T' table whose entry (b, t) is -1 iff t  *)
(* is at or beyond row b's valid compressed length, and is otherwise the   *)
(* code in 0..bottom_latent_k-1 the quantizer assigned to the position; no *)
(* valid position carries -1.  There are two exceptions, both of which     *)
(* leave the model as it was: on a model built with use_latent = 0 the     *)
(* call raises TypeError, and in training mode, where                      *)
(* torch.cuda.device_count() > 1 and there is no process group, it raises  *)
(* in the all_reduce of the quantizer.                                     *)
(***************************************************************************)
C6_ExtractedCodes ==
    \A w \in Workers : Extracted(w) =>
        IF ~args.use_latent
        THEN /\ pc[w] = "raised"
             /\ ret[w].raised = "TypeError"
             /\ quantizer[w] = ret[w].old
        ELSE IF NoProcessGroup(w)
        THEN RaisedInAllReduce(w)
        ELSE ReturnedTable(w)

\* extract_codes on a batch with a padded position, whose rows carry both
\* codes and one -1.
C6_Witness ==
    /\ pc[1] = "returned"
    /\ ret[1].call = "extract_codes"
    /\ Len(ret[1].lengths) = 2
    /\ ret[1].codes[1] = <<0, 1>>
    /\ ret[1].codes[2] = <<1, -1>>


(***************************************************************************)
(* Helpers of the claim about the pretraining gate.                        *)
(***************************************************************************)
\* The call of worker w ran the quantizer iff the model has one and
\* update_steps is strictly beyond pretrain_steps.
GatedStrictly(w) ==
    /\ ret[w].quantized <=>
          (args.use_latent /\ ret[w].update_steps > args.pretrain_steps)
    /\ ret[w].quantized => "effective latents per batch" \in DOMAIN ret[w].quantize_stats
    /\ (args.use_latent /\ args.pretrain_steps = -1 /\ ret[w].update_steps >= 0) =>
          ret[w].quantized

\* A call that did not run the quantizer passes the raw convolutional
\* output on, returns a zero diff and no statistics and leaves the buffers.
PassedThrough(w) ==
    /\ ret[w].encoder_out.src_encodings = ToQ(ret[w].text_conv_out)
    /\ QEq(ret[w].diff, QOfInt(0))
    /\ ret[w].quantize_stats = <<>>
    /\ quantizer[w] = ret[w].old

(***************************************************************************)
(* C9 as stated.  The quantizer runs in a call of VQVAE.forward iff there  *)
(* is one and update_steps > pretrain_steps; in every call without it the  *)
(* decoder receives the raw convolutional output itself, diff is zero,     *)
(* quantize_stats is empty and the buffers are unchanged.  It fails where  *)
(* bottom_latent_encoder stands between the output and the decoder.        *)
(***************************************************************************)
C9_DecoderGetsRawOutput ==
    \A w \in Workers : pc[w] = "returned" /\ ret[w].call = "forward" =>
        /\ GatedStrictly(w)
        /\ ~ret[w].quantized =>
              /\ PassedThrough(w)
              /\ ~ret[w].encoder_out.bottom_latent_encoder

(***************************************************************************)
(* C9.  In any sequence of calls of VQVAE.forward the quantizer runs in a  *)
(* call iff bottom_quantizer is not None and update_steps > pretrain_steps *)
(* (a call with update_steps = pretrain_steps is not quantized), so with a *)
(* quantizer and the default pretrain_steps = -1 every call with           *)
(* update_steps >= 0 is quantized.  In every call without the quantizer    *)
(* diff is zero, quantize_stats is empty, the buffers embed, cluster_size  *)
(* and embed_avg are unchanged, and the raw convolutional output goes to   *)
(* the decoder, through bottom_latent_encoder when the model was built     *)
(* with use_bottom_quantants_encoder and directly otherwise.               *)
(***************************************************************************)
C9_PretrainingGate ==
    \A w \in Workers : pc[w] = "returned" /\ ret[w].call = "forward" =>
        /\ GatedStrictly(w)
        /\ ~ret[w].quantized =>
              /\ PassedThrough(w)
              /\ ret[w].encoder_out.bottom_latent_encoder
                    <=> args.use_bottom_quantants_encoder

\* A training call with update_steps = pretrain_steps = 0 on a model whose
\* codebook an earlier call has updated: it is not quantized.
C9_Witness ==
    /\ pc[1] = "returned"
    /\ args.use_latent /\ args.pretrain_steps = 0
    /\ ret[1].call = "forward" /\ ret[1].training
    /\ ret[1].update_steps = 0
    /\ ~ret[1].quantized
    /\ ret[1].old # QuantizeInit
    /\ \E t \in DOMAIN ret[1].text_conv_out : \E b \in DOMAIN ret[1].lengths :
          ret[1].text_conv_out[t][b] = <<-1, -1>> /\ ~ret[1].mask[b][t]

(***************************************************************************)
(* C10 as stated.  Workers that start a training step with identical       *)
(* embed, cluster_size and embed_avg hold identical buffers after it,      *)
(* whatever their local batches are.  It fails for workers that each see   *)
(* one device: the all_reduce runs only if torch.cuda.device_count() > 1.  *)
(***************************************************************************)
C10_WorkersAgree ==
    \A v \in Workers : \A w \in Workers :
        Trained(v) /\ Trained(w) /\ ret[v].old = ret[w].old =>
            quantizer[v] = quantizer[w]

\* Two workers that see one device each have made a training step on
\* different batches, from the same buffers, and hold different buffers.
C10_Witness ==
    /\ args.world = 2 /\ args.device_count = 1
    /\ Trained(1) /\ Trained(2)
    /\ ret[1].text_conv_out # ret[2].text_conv_out
    /\ ret[1].old = ret[2].old
    /\ quantizer[1] # quantizer[2]


(***************************************************************************)
(* VQVAE.build_model: the embeddings of the encoder and the decoder.       *)
(*                                                                         *)
(* Specification SpecBuild: build_model called once on every combination   *)
(* of the arguments it reads.  An embedding is an object with an identity; *)
(* the files a path names are taken to exist.                              *)
(***************************************************************************)
EmbedDims == {256, 512}

EmbedPaths == {None, "", "enc.vec", "dec.vec"}

\* the truth value of a path in a condition: None and '' are false
Truthy(path) == path \notin {None, ""}

\* build_embedding: object number id, loaded from path if one is provided
build_embedding(id, embed_dim, path) ==
    [id |-> id, embedding_dim |-> embed_dim,
     loaded_from |-> IF Truthy(path) THEN path ELSE None]

\* args.encoder_embed_dim != args.decoder_embed_dim
DimMismatch(a) == a.encoder_embed_dim # a.decoder_embed_dim

\* A faulty variant of PathConflict, to try the properties against: any decoder_embed_path is accepted.
PathConflictNever(a) == FALSE

\* args.decoder_embed_path and (args.decoder_embed_path != args.encoder_embed_path)
PathConflict(a) ==
    Truthy(a.decoder_embed_path) /\ a.decoder_embed_path # a.encoder_embed_path

\* build_model on the arguments a: the error it raises, or the embeddings
\* it hands to build_encoder and build_decoder, the argument it sets and
\* the optional parts of the model.
BuildModel(a) ==
    IF a.share_all_embeddings /\ DimMismatch(a)
    THEN [raised |-> "ValueError",
          message |-> "--share-all-embeddings requires --encoder-embed-dim to match --decoder-embed-dim"]
    ELSE IF a.share_all_embeddings /\ PathConflict(a)
    THEN [raised |-> "ValueError",
          message |-> "--share-all-embeddings not compatible with --decoder-embed-path"]
    ELSE [raised |-> None,
          encoder_embed_tokens |->
              build_embedding(1, a.encoder_embed_dim, a.encoder_embed_path),
          decoder_embed_tokens |->
              IF a.share_all_embeddings
              THEN build_embedding(1, a.encoder_embed_dim, a.encoder_embed_path)
              ELSE build_embedding(2, a.decoder_embed_dim, a.decoder_embed_path),
          share_decoder_input_output_embed |->
              a.share_all_embeddings \/ a.share_decoder_input_output_embed,
          bottom_quantizer |-> a.use_latent # 0,
          bottom_latent_encoder |-> a.use_bottom_quantants_encoder # 0]

BuildInit ==
    /\ \E share \in BOOLEAN, out \in BOOLEAN, ed \in EmbedDims, dd \in EmbedDims,
          ep \in EmbedPaths, dp \in EmbedPaths, ul \in {0, 1}, be \in {0, 1} :
          bm = [args |-> [share_all_embeddings |-> share,
                          share_decoder_input_output_embed |-> out,
                          encoder_embed_dim |-> ed,
                          decoder_embed_dim |-> dd,
                          encoder_embed_path |-> ep,
                          decoder_embed_path |-> dp,
                          use_latent |-> ul,
                          use_bottom_quantants_encoder |-> be],
                pc |-> "call",
                result |-> <<>>]
    /\ args = Unused /\ quantizer = Unused /\ n_calls = 0
    /\ pc = Unused /\ ret = Unused /\ ar = Unused /\ mw = Unused /\ cv = Unused /\ mb = Unused

BuildModelCall ==
    /\ bm.pc = "call"
    /\ bm' = [bm EXCEPT !.result = BuildModel(bm.args),
                        !.pc = IF BuildModel(bm.args).raised = None
                               THEN "returned" ELSE "raised"]
    /\ UNCHANGED <<args, quantizer, n_calls, pc, ret, ar, mw, cv, mb>>

BuildNext == BuildModelCall

SpecBuild == BuildInit /\ [][BuildNext]_vars

(***************************************************************************)
(* C7.  build_model with --share-all-embeddings raises ValueError when     *)
(* encoder_embed_dim differs from decoder_embed_dim, raises ValueError     *)
(* when decoder_embed_path is set (a non-empty path) and differs from      *)
(* encoder_embed_path, and otherwise gives the decoder the very embedding  *)
(* object of the encoder and sets share_decoder_input_output_embed; without*)
(* the flag it builds two embeddings and raises nothing, whatever the      *)
(* dimensions.                                                             *)
(***************************************************************************)
C7_ShareAllEmbeddings ==
    bm # Unused /\ bm.pc # "call" =>
        /\ bm.args.share_all_embeddings =>
              /\ bm.args.encoder_embed_dim # bm.args.decoder_embed_dim =>
                    bm.pc = "raised" /\ bm.result.raised = "ValueError"
              /\ (bm.args.decoder_embed_path \notin {None, ""}
                    /\ bm.args.decoder_embed_path # bm.args.encoder_embed_path) =>
                    bm.pc = "raised" /\ bm.result.raised = "ValueError"
              /\ (bm.args.encoder_embed_dim = bm.args.decoder_embed_dim
                    /\ (bm.args.decoder_embed_path \in {None, ""}
                          \/ bm.args.decoder_embed_path = bm.args.encoder_embed_path)) =>
                    /\ bm.pc = "returned"
                    /\ bm.result.decoder_embed_tokens.id = bm.result.encoder_embed_tokens.id
                    /\ bm.result.decoder_embed_tokens = bm.result.encoder_embed_tokens
                    /\ bm.result.share_decoder_input_output_embed
        /\ ~bm.args.share_all_embeddings =>
              /\ bm.pc = "returned"
              /\ bm.result.decoder_embed_tokens.id # bm.result.encoder_embed_tokens.id
              /\ bm.result.encoder_embed_tokens.embedding_dim = bm.args.encoder_embed_dim
              /\ bm.result.decoder_embed_tokens.embedding_dim = bm.args.decoder_embed_dim
              /\ bm.result.share_decoder_input_output_embed
                    = bm.args.share_decoder_input_output_embed

\* With the flag, equal dimensions and a decoder path that differs from
\* the encoder's, build_model has raised.
C7_Witness ==
    /\ bm # Unused
    /\ bm.pc = "raised"
    /\ bm.args.share_all_embeddings
    /\ bm.args.encoder_embed_dim = bm.args.decoder_embed_dim
    /\ bm.args.decoder_embed_path = "dec.vec"
    /\ bm.args.encoder_embed_path = "enc.vec"
    /\ bm.result.message = "--share-all-embeddings not compatible with --decoder-embed-path"


(***************************************************************************)
(* VQVAE.mask_words: word dropout on the decoder's input.                  *)
(*                                                                         *)
(* Specification SpecWords: mask_words called once on every batch of       *)
(* right-padded rows, every drop_word_prob of DropRates and every outcome  *)
(* of the random scores.  The scores of a row are distinct, so an outcome  *)
(* is the rank of each position's score within its row.                    *)
(***************************************************************************)
\* drop_word_prob as numerator and denominator: 0.5, 0.25, 0.75
DropRates == {<<1, 2>>, <<1, 4>>, <<3, 4>>}

WordsInit ==
    /\ \E nb \in 1..BatchSize : \E lengths \in [1..nb -> 1..MaxLen] :
       \E rate \in DropRates :
          mw = [src_tokens |-> Collate(lengths),
                lengths |-> lengths,
                word_drop_rate |-> rate,
                scores |-> <<>>,
                result |-> <<>>,
                pc |-> "call"]
    /\ args = Unused /\ quantizer = Unused /\ n_calls = 0
    /\ pc = Unused /\ ret = Unused /\ ar = Unused /\ bm = Unused /\ cv = Unused /\ mb = Unused

MaskWordsCall ==
    /\ mw.pc = "call"
    /\ \E drawn \in [DOMAIN mw.src_tokens -> Rankings(Len(mw.src_tokens[1]))] :
          mw' = [mw EXCEPT !.scores = drawn,
                           !.result = mask_words(mw.src_tokens, mw.lengths,
                                                 mw.word_drop_rate, drawn),
                           !.pc = "returned"]
    /\ UNCHANGED <<args, quantizer, n_calls, pc, ret, ar, bm, cv, mb>>

WordsNext == MaskWordsCall

SpecWords == WordsInit /\ [][WordsNext]_vars

\* the non-padding tokens of row b that mask_words replaced by padding
DroppedWords(b) ==
    {j \in DOMAIN mw.src_tokens[b] :
        mw.src_tokens[b][j] # Pad /\ mw.result[b][j] = Pad}

(***************************************************************************)
(* C8 as stated.  For every outcome of the random scores mask_words        *)
(* replaces exactly floor(lengths[b] * drop_word_prob) non-padding tokens  *)
(* of row b with the padding index.  It fails: the scores of the padding   *)
(* positions are never zeroed, so a padding position can be among the      *)
(* highest scores and take the place of a word.                            *)
(***************************************************************************)
C8_DropsExactlyManyWords ==
    mw # Unused /\ mw.pc = "returned" =>
        \A b \in DOMAIN mw.src_tokens :
            Cardinality(DroppedWords(b))
                = (mw.lengths[b] * mw.word_drop_rate[1]) \div mw.word_drop_rate[2]

\* A row of two words and a padding position, half of the words to drop,
\* the padding position's score the highest: no word was dropped.
C8_Witness ==
    /\ mw # Unused /\ mw.pc = "returned"
    /\ mw.word_drop_rate = <<1, 2>>
    /\ Len(mw.lengths) = 2
    /\ mw.src_tokens[2] = <<Word, Word, Pad>>
    /\ mw.scores[2][3] = 3
    /\ mw.result[2] = <<Word, Word, Pad>>


(***************************************************************************)
(* MultiKernelConvBlock and FullConvEncoder (conv_encoder.py): the widths  *)
(* of the tensors of a block with several kernel sizes.                    *)
(*                                                                         *)
(* Specification SpecMulti: FullConvEncoder.forward run block by block on  *)
(* every batch of lengths, on tokens as wide as the longest row or one     *)
(* wider, every stack of blocks of up to MaxBranches kernel sizes, in      *)
(* training mode and in evaluation mode.  In place of a width, 0 stands    *)
(* for a RuntimeError of the operation and -1 for a ValueError.            *)
(***************************************************************************)
\* kernel sizes of one block
MaxBranches == 2

\* F.pad(x, (left, right), 'constant', 0) on the last dimension
PadWidth(T, left, right) == T + left + right

\* A faulty variant of BranchWidth, to try the properties against: even kernels padded by k//2 on both sides.
BranchWidthSymmetric(T, k, s) ==
    IF k % 2 # 0
    THEN ConvOutWidth(T, k, k \div 2, s)
    ELSE ConvOutWidth(PadWidth(T, k \div 2, k \div 2), k, 0, s)

\* One branch of conv_block_1 or conv_block_2 on an input of width T: for
\* an odd kernel the convolution with padding k//2, for an even one the
\* convolution without padding of F.pad(x, (k//2, k//2-1)).
BranchWidth(T, k, s) ==
    IF k % 2 # 0
    THEN ConvOutWidth(T, k, k \div 2, s)
    ELSE ConvOutWidth(PadWidth(T, k \div 2, (k \div 2) - 1), k, 0, s)

\* torch.cat(outs, dim=1): the branches must agree in width
CatWidth(outs) ==
    IF \A i \in DOMAIN outs : outs[i] = outs[1] /\ outs[i] > 0 THEN outs[1] ELSE 0

\* An operation of the block runs only if what preceded it did not raise:
\* prev is the width the preceding operation gave or the error it passed on.
Then(prev, width) == IF prev <= 0 THEN prev ELSE width

\* nn.BatchNorm1d on a tensor of batch rows of the given width: in training
\* mode it raises ValueError ("Expected more than 1 value per channel when
\* training") unless batch * width > 1.  -1 stands for the ValueError.
BatchNorm1d(batch, width, training) ==
    IF width <= 0 THEN 0
    ELSE IF training /\ batch * width <= 1 THEN -1
    ELSE width

\* MultiKernelConvBlock.forward on x of width T, in training mode or not: the
\* width of every tensor it computes in the order it computes them, the new
\* lengths, the new mask and the error it raises, if any.  A tensor after
\* the error carries the error's number in place of a width.
MultiKernelConvBlockForward(T, input_length, kernels, stride, training) ==
    LET batch == Len(input_length)
        cm == compute_conv_mask(input_length, stride)
        mask_width == Len(cm.mask[1])
        residual == BatchNorm1d(batch, ConvOutWidth(T, 1, 0, stride), training)
        outs1 == [i \in DOMAIN kernels |->
                    Then(residual, BranchWidth(T, kernels[i], stride))]
        cat1 == Then(residual, CatWidth(outs1))
        bn1 == Then(cat1, BatchNorm1d(batch, cat1, training))
        masked1 == Then(bn1, BroadcastWidth(bn1, mask_width))
        outs2 == [i \in DOMAIN kernels |->
                    Then(masked1, BranchWidth(masked1, kernels[i], 1))]
        cat2 == Then(masked1, CatWidth(outs2))
        bn2 == Then(cat2, BatchNorm1d(batch, cat2, training))
        sum == Then(bn2, BroadcastWidth(bn2, residual))
        out == Then(sum, BroadcastWidth(sum, mask_width))
    IN  [new_length |-> cm.valid_lengths,
         new_mask |-> cm.mask,
         residual |-> residual,
         outs1 |-> outs1,
         cat1 |-> cat1,
         bn1 |-> bn1,
         masked1 |-> masked1,
         outs2 |-> outs2,
         cat2 |-> cat2,
         bn2 |-> bn2,
         sum |-> sum,
         out |-> out,
         raised |-> IF out = -1 THEN "ValueError"
                    ELSE IF out = 0 THEN "RuntimeError"
                    ELSE None]

\* the kernel sizes a block may have: increasing, up to MaxBranches of them
KernelLists ==
    UNION {{ks \in [1..n -> 1..MaxKernel] : \A i \in 1..(n - 1) : ks[i] < ks[i + 1]} :
           n \in 1..MaxBranches}

MultiInit ==
    /\ \E n \in 1..MaxLayers : \E kernels \in [1..n -> KernelLists] :
       \E strides \in [1..n -> 1..MaxStride] :
       \E nb \in 1..BatchSize : \E lengths \in [1..nb -> 1..ConvMaxLen] :
       \E extra \in {0, 1} : \E training \in BOOLEAN :
          mb = [kernels |-> kernels,
                training |-> training,
                strides |-> strides,
                src_width |-> MaxOf(Range(lengths)) + extra,
                src_lengths |-> lengths,
                block |-> 0,
                in_width |-> MaxOf(Range(lengths)) + extra,
                in_lengths |-> lengths,
                shapes |-> <<>>,
                width |-> MaxOf(Range(lengths)) + extra,
                lengths |-> lengths,
                mask |-> <<>>,
                raised |-> None,
                pc |-> "loop"]
    /\ args = Unused /\ quantizer = Unused /\ n_calls = 0 /\ pc = Unused
    /\ ar = Unused
    /\ ret = Unused /\ mw = Unused /\ bm = Unused /\ cv = Unused

\* One pass of the loop of FullConvEncoder.forward: a whole block; an
\* error inside it ends the call.
MultiBlock ==
    /\ mb.pc = "loop"
    /\ mb.block < Len(mb.kernels)
    /\ \E st \in {MultiKernelConvBlockForward(mb.width, mb.lengths,
                                              mb.kernels[mb.block + 1],
                                              mb.strides[mb.block + 1],
                                              mb.training)} :
          mb' = [mb EXCEPT !.block = mb.block + 1,
                           !.in_width = mb.width,
                           !.in_lengths = mb.lengths,
                           !.shapes = st,
                           !.width = st.out,
                           !.lengths = st.new_length,
                           !.mask = st.new_mask,
                           !.raised = st.raised,
                           !.pc = IF st.raised # None THEN "raised" ELSE "loop"]
    /\ UNCHANGED <<args, quantizer, n_calls, pc, ret, ar, mw, bm, cv>>

\* After the last block: quant_conv (kernel 1, stride 1) and the return.
MultiReturn ==
    /\ mb.pc = "loop"
    /\ mb.block = Len(mb.kernels)
    /\ mb' = [mb EXCEPT !.width = ConvOutWidth(mb.width, 1, 0, 1),
                        !.pc = "returned"]
    /\ UNCHANGED <<args, quantizer, n_calls, pc, ret, ar, mw, bm, cv>>

MultiNext == MultiBlock \/ MultiReturn

SpecMulti == MultiInit /\ [][MultiNext]_vars

(***************************************************************************)
(* Helpers of the claim about MultiKernelConvBlock, on the block that ran  *)
(* last.                                                                   *)
(***************************************************************************)
\* (T - 1) div s + 1 for the block's input width and stride
ExpectedWidth == (mb.in_width - 1) \div mb.strides[mb.block] + 1

\* the width of compute_conv_mask's mask: the largest new length
ExpectedMaskWidth ==
    MaxOf({(mb.in_lengths[b] - 1) \div mb.strides[mb.block] + 1 :
              b \in DOMAIN mb.in_lengths})

\* In training mode the batch is a single row and the block's output is a
\* single position wide: a channel has one value.
OneValuePerChannel ==
    mb.training /\ Len(mb.in_lengths) * ExpectedWidth <= 1

\* The widths of the block's tensors agree as the kernel sizes, the stride
\* and the mask require.
WidthsAgree ==
    /\ \A i \in DOMAIN mb.shapes.outs1 : mb.shapes.outs1[i] = ExpectedWidth
    /\ mb.shapes.residual = ExpectedWidth
    /\ mb.shapes.cat1 = ExpectedWidth
    /\ mb.shapes.bn1 = ExpectedWidth
    /\ \A b \in DOMAIN mb.mask : Len(mb.mask[b]) = ExpectedMaskWidth
    /\ mb.shapes.masked1 # 0 =>
          /\ \A i \in DOMAIN mb.shapes.outs2 : mb.shapes.outs2[i] = mb.shapes.masked1
          /\ mb.shapes.cat2 = mb.shapes.masked1
          /\ mb.shapes.bn2 = mb.shapes.masked1
    /\ mb.in_width = MaxOf(Range(mb.in_lengths)) =>
          /\ ExpectedMaskWidth = ExpectedWidth
          /\ mb.shapes.masked1 = ExpectedWidth
          /\ mb.shapes.cat2 = ExpectedWidth
          /\ mb.shapes.sum = ExpectedWidth
          /\ mb.shapes.out = ExpectedWidth
          /\ mb.raised = None

(***************************************************************************)
(* C11 as stated.  For every kernel size of the block, every stride and    *)
(* every input width T >= 1, each branch of conv_block_1 and the 1x1       *)
(* strided downsample produce the width (T - 1) div s + 1, each branch of  *)
(* conv_block_2 preserves it, and it is the width of the mask when T is    *)
(* the largest input length.  It fails in training mode on a single row    *)
(* whose output is one position wide: the BatchNorm1d of the downsample    *)
(* raises ValueError and no tensor is produced.                            *)
(***************************************************************************)
C11_WidthsWhateverTheBatch ==
    mb # Unused /\ mb.block >= 1 => mb.in_width >= 1 /\ WidthsAgree

(***************************************************************************)
(* C11.  MultiKernelConvBlock treats odd and even kernel sizes alike.      *)
(* Unless the block is in training mode and batch * ((T - 1) div s + 1)    *)
(* is 1: for every kernel size of the block, every stride s >= 1 and every *)
(* input width T >= 1, each branch of conv_block_1 and the 1x1 strided     *)
(* downsample give the width (T - 1) div s + 1, and each branch of         *)
(* conv_block_2 preserves the width it is given; when T is the largest of  *)
(* the input lengths this is also the width of compute_conv_mask's mask,   *)
(* so the concatenations, the residual addition and the multiplications by *)
(* the mask all agree in shape and the block raises nothing.  In training  *)
(* mode with batch * ((T - 1) div s + 1) = 1 the BatchNorm1d of the        *)
(* downsample raises ValueError before any branch runs.  In a stack of     *)
(* blocks fed tokens as wide as the longest row no block raises a          *)
(* RuntimeError of shapes.                                                 *)
(***************************************************************************)
C11_MultiKernelWidths ==
    mb # Unused /\ mb.block >= 1 =>
        /\ mb.in_width >= 1
        /\ ~OneValuePerChannel => WidthsAgree
        /\ OneValuePerChannel =>
              /\ mb.raised = "ValueError"
              /\ mb.pc = "raised"
              /\ mb.shapes.residual = -1
              /\ \A i \in DOMAIN mb.shapes.outs1 : mb.shapes.outs1[i] = -1
        /\ mb.src_width = MaxOf(Range(mb.src_lengths)) =>
              /\ mb.in_width = MaxOf(Range(mb.in_lengths))
              /\ mb.raised # "RuntimeError"

\* Two strided blocks, each with an even and an odd kernel size of at
\* least 2, over rows of different lengths have run and the call has
\* returned more than one position wide.
C11_Witness ==
    /\ mb # Unused
    /\ mb.pc = "returned"
    /\ mb.block = 2
    /\ mb.kernels = <<<<2, 3>>, <<3, 4>>>>
    /\ \A i \in 1..2 : mb.strides[i] >= 2
    /\ mb.src_width = MaxOf(Range(mb.src_lengths))
    /\ Len(mb.src_lengths) = 2 /\ mb.src_lengths[1] # mb.src_lengths[2]
    /\ mb.width >= 2


=============================================================================
